---- MODULE Spec2Model ----
(***************************************************************************)
(* Model of test-runner/test_runner/app.py: the startvm session            *)
(* orchestrator, the QEMU monitor ("console") channel and the monitor      *)
(* proxy thread, together with the clients of the proxy                    *)
(* (_monitor_send_command in app.py and capability_tests/qemu.py).         *)
(*                                                                         *)
(* Bytes are one-character strings, byte strings are sequences of them.    *)
(***************************************************************************)
EXTENDS Integers, Sequences, FiniteSets, TLC

VARIABLES
    \* ---- console read in isolation (_monitor_wait_for_prompt) ----
    rdStream,       \* bytes the peer will still deliver on the connection
    rdSent,         \* bytes delivered so far (history of the connection)
    rdAnswer,       \* the local variable `answer`
    rdState,        \* "reading" | "returned"
    rdChunks        \* number of recv() calls that returned data

VARIABLES
    \* ---- the working directory (survives sessions) ----
    fsMarker,       \* setup-complete exists
    fsResult,       \* the nix-build out-link nix-vm-script exists
    fsKey,          \* the pair in id_rsa / id_rsa.pub: 0 (no files), or the
                    \* number of the pair among those generated there
    tmpDir,         \* the directory made by mkdtemp for this session:
                    \* "none" (the caller gave vm_dir) | "exists" | "removed"
    \* ---- one startvm call (the foreground flow) ----
    sessions,       \* startvm calls made so far against the directory
    pc,             \* position of the foreground flow
    verbose,        \* startvm's argument
    code_dir,       \* startvm's code_dir after lines 48-50
    scriptFiles,    \* the optional script files on the host when looked for
    already_setup,  \* local of _setup_vm
    shutdown_vm,    \* startvm's local: FALSE is None, TRUE is the closure
    exc,            \* exception in flight in the foreground flow, or "none"
    result,         \* how startvm ended: "running" | "returned" | "raised"
    i,              \* _wait_for_ssh: attempts started and failed so far
    portsInUse,     \* the ports accepting connections when _start_qemu probes
    vnc_arg,        \* _start_qemu's display offset, until vnc_port is logged
    ssh_public_key, \* the public key _ssh_setup_keypair returned (0: not yet)
    returncode,     \* exit status of the remote commands of the last setup step
    sshLast,        \* outcome of the latest remote no-op command, or "none"
    counter,        \* login wait: loop variable
    keys,           \* _log_in_user: sendkey commands sent
    did,            \* setup steps performed in this session, in order
    \* ---- the hypervisor and its monitor connection ----
    vmProc,         \* "none" | "running" | "killed"
    monConn,        \* the monitor connection has been accepted
    spawned,        \* how many hypervisor processes, monitor connections and
                    \* proxy threads the session has made
    monIn,          \* commands written to the monitor, not yet executed
    qemuOut,        \* response bytes the hypervisor has still to emit
    monBuf,         \* bytes emitted and not yet read from the connection
    bootAnswer,     \* `answer` of the foreground's boot-time console read
    dumpFile,       \* content of the screendump file of the current poll
    keysInjected,   \* keys the hypervisor was told to press, in order
    \* ---- the monitor proxy thread ----
    ppc,            \* position of the proxy thread
    stopEvent,      \* monitor_proxy_stop_event.is_set()
    proxyBound,     \* the proxy socket is bound and listening
    backlog,        \* connections made and not yet accepted, oldest first
    client_sock,    \* the proxy's local client_sock (NoClient: unbound)
    request,        \* the proxy's local request
    answer,         \* `answer` of the proxy's console read
    outstanding,    \* commands forwarded whose exchange is not finished
    timeouts,       \* accept timeouts taken since the stop event was set
    \* ---- clients of the proxy socket ----
    cpc,            \* per client: "idle" | "connected" | "sent" | "closed"
    creq,           \* per client: bytes sent and not yet read by the proxy
    cresp,          \* per client: what its recv returned (NoData: nothing yet)
    pside,          \* per client: the proxy's end: "none" | "open" | "closed"
    late            \* clients that connected while the stop event was set

rdVars == <<rdStream, rdSent, rdAnswer, rdState, rdChunks>>

fsVars == <<fsMarker, fsResult, fsKey, tmpDir>>

fgVars == <<sessions, pc, verbose, code_dir, scriptFiles, already_setup,
            shutdown_vm, exc, result, i, sshLast, portsInUse, vnc_arg,
            ssh_public_key, returncode, counter, keys, did>>

vmVars == <<vmProc, monConn, spawned, monIn, qemuOut, monBuf, bootAnswer,
            dumpFile, keysInjected>>

proxyVars == <<ppc, stopEvent, proxyBound, backlog, client_sock, request,
               answer, outstanding, timeouts>>

clientVars == <<cpc, creq, cresp, pside, late>>

sysVars == <<fsVars, fgVars, vmVars, proxyVars, clientVars>>

vars == <<rdVars, sysVars>>

----------------------------------------------------------------------------
(* Byte strings *)

\* suffix = b"(qemu) "
Suffix == <<"(", "q", "e", "m", "u", ")", " ">>

\* monitor_connection.recv(1024): at most this many bytes per read
RecvSize == 1024

Min(a, b) == IF a <= b THEN a ELSE b

\* bytes.endswith
EndsWith(s, suf) ==
    /\ Len(s) >= Len(suf)
    /\ SubSeq(s, Len(s) - Len(suf) + 1, Len(s)) = suf

\* the slice s[:n] for n >= 0
SliceTo(s, n) == SubSeq(s, 1, Min(n, Len(s)))

\* the slice s[:-n] for n > 0 (what stripping a suffix of n bytes needs)
DropLast(s, n) == SubSeq(s, 1, Len(s) - Min(n, Len(s)))

\* does `pat` occur in s starting at some position
Occurs(pat, s) ==
    \E n \in 1..(Len(s) - Len(pat) + 1) : SubSeq(s, n, n + Len(pat) - 1) = pat

----------------------------------------------------------------------------
(* _monitor_wait_for_prompt, one loop iteration at a time *)

\* line 502: answer = answer[:len(suffix)]
Truncate(acc) == SliceTo(acc, Len(Suffix))

\* the prompt is looked for in the bytes of the last recv alone
PromptSeen_InChunk(acc, chunk) == EndsWith(chunk, Suffix)

\* line 501: if answer.endswith(suffix), answer being all that was received
PromptSeen(acc, chunk) == EndsWith(acc, Suffix)

\* the read returns after its first recv, prompt or not
WaitStep_FirstRecv(ans, chunk) == [answer |-> ans \o chunk, done |-> TRUE]

\* lines 500-503: the loop body after a non-empty recv; the result is the new
\* value of `answer` and whether the loop was left by `break`
WaitStep(ans, chunk) ==
    LET acc == ans \o chunk
    IN  IF PromptSeen(acc, chunk)
        THEN [answer |-> Truncate(acc), done |-> TRUE]
        ELSE [answer |-> acc, done |-> FALSE]

\* the docstring's result: the output received, excluding the final prompt
StripPrompt(raw) == DropLast(raw, Len(Suffix))

----------------------------------------------------------------------------
(* The console read on its own: every stream, every chunking *)

\* longest response body tried ahead of the prompt
MaxBody == 2

BodyBytes == {"a", "(", " "}

Bodies == UNION {[1..n -> BodyBytes] : n \in 0..MaxBody}

\* Responses as the monitor frames them: a body, then the prompt
Streams == {b \o Suffix : b \in Bodies}


----------------------------------------------------------------------------
(* The session: constants of the code and bounds of the model *)

\* _wait_for_ssh: attempts = 20
attempts == 20

\* _wait_for_ssh: retry_timeout = 50
retry_timeout == 50

\* _setup_vm: login_wait_time = 24
login_wait_time == 24

\* _setup_vm: seconds slept between two screen checks
PollSleep == 5

\* _monitor_start_proxy: monitor_proxy_socket.settimeout(5.0)
AcceptTimeout == 5

\* _setup_vm: user_password = "password"
user_password == <<"p", "a", "s", "s", "w", "o", "r", "d">>

\* startvm calls made against one working directory
MaxSessions == 2

\* clients that reach the proxy socket through the tunnel
MaxClients == 2

\* the foreground flow's own connections to the proxy socket
FgClient == 0

\* client_sock before the first accept
NoClient == -1

Clients == 0..MaxClients

ExtClients == 1..MaxClients

\* recv has not returned yet
\* no remote command has returned an exit status
NoStatus == -1

NoData == <<"<none>">>

\* response bodies of the monitor ahead of the prompt
RespBodies == {<<>>, <<"a">>}

----------------------------------------------------------------------------
(* The screen capture and _is_on_login_screen *)

\* bytes.splitlines on "\n"; a final line with no terminator is a line
RECURSIVE SplitFrom(_, _, _)
SplitFrom(s, k, cur) ==
    IF k > Len(s)
    THEN IF cur = <<>> THEN <<>> ELSE <<cur>>
    ELSE IF s[k] = "\n"
         THEN <<cur>> \o SplitFrom(s, k + 1, <<>>)
         ELSE SplitFrom(s, k + 1, Append(cur, s[k]))

SplitLines(s) == SplitFrom(s, 1, <<>>)

\* bytes.startswith
StartsWith(s, pre) == Len(s) >= Len(pre) /\ SubSeq(s, 1, Len(pre)) = pre

\* b'""&'
Sentinel == <<"\"", "\"", "&">>

\* a PPM capture: magic, size, maximum, then the pixel bytes
PpmHeader == <<"P", "6", "\n", "8", "\n", "2", "\n">>

CapLogin == PpmHeader \o <<"\"", "\"", "&", "\"">>

CapBlack == PpmHeader \o <<"z", "z", "z", "z">>

\* what a screendump may leave in the file: nothing, a header alone, a black
\* frame, the login screen's background
Captures == {<<>>, PpmHeader, CapBlack, CapLogin}

\* line 525 indexes line 3: IndexError when there are fewer than 4 lines
HasFourLines(content) == Len(SplitLines(content)) >= 4

\* line 525: content.splitlines()[3].startswith(b'""&')
IsOnLoginScreen(content) == StartsWith(SplitLines(content)[4], Sentinel)

----------------------------------------------------------------------------
(* Decisions of the foreground flow *)

\* lines 397-402: _run_script is subprocess.run without check: it returns the
\* CompletedProcess whatever the exit status, and lines 135-145 and 437 drop
\* what it returns
RunScriptRaises(rc) == "none"

\* line 257: range(100), the display ports probed
VncRange == 100

\* line 258: vnc_port = offset + 5900
VncBase == 5900

\* the ports found busy ahead of the first free one are among the first
\* MaxBusy of the range
MaxBusy == 2

\* line 255: vnc_arg = None
NoPort == -1

\* the ports that accept connections while the range is probed: some of the
\* first ones, or all of the range
BusySets ==
    (SUBSET (VncBase..(VncBase + MaxBusy - 1)))
        \cup {VncBase..(VncBase + VncRange - 1)}

\* lines 450-456: connect_ex(('localhost', port)) == 0
IsPortInUse(port, busy) == port \in busy

\* lines 257-262: the loop from `offset` on: the first offset whose port is
\* not in use, or None when the range is exhausted
RECURSIVE VncProbe(_, _)
VncProbe(offset, busy) ==
    IF offset >= VncRange THEN NoPort
    ELSE IF ~IsPortInUse(offset + VncBase, busy) THEN offset
    ELSE VncProbe(offset + 1, busy)

\* the first offset is taken without a probe
VncArg_Unprobed(busy) == 0

\* lines 255-262: vnc_arg when the loop is over
VncArg(busy) == VncProbe(0, busy)

\* line 266: subprocess.Popen; line 290: monitor_socket.accept(); lines
\* 297-301: threading.Thread(...).start()
Spawns == {"popen", "accept", "thread"}

\* lines 41 and 551: code_dir as startvm gets it: omitted, or the string of
\* --code-dir
CodeDirArgs == {"None", "str"}

\* lines 48-50: the default directory, a pathlib.Path, takes the place of a
\* missing argument; a given one is left as it is
CodeDir(arg) == IF arg = "None" THEN "default" ELSE arg

\* line 51: code_dir.absolute() is a method of pathlib.Path; a str has none
CodeDirRaises(arg) == IF CodeDir(arg) = "str" THEN "AttributeError" ELSE "none"

\* a pair is generated in every session
ShouldKeygen_Always(stored) == TRUE

\* line 417: ssh-keygen is run when the private key file does not exist
ShouldKeygen(stored) == stored = 0

\* lines 418-422: what the check=True call raises for ssh-keygen's status
KeygenRaises(rc) == IF rc = 0 THEN "none" ELSE "CalledProcessError"

\* the build is run for every session
ShouldBuild_Always(already) == TRUE

\* line 108: if not already_setup: _nix_build(...)
ShouldBuild(already) == ~already

\* lines 150, 171 and 176: the optional scripts: <nixfile>.sh before the
\* login, <nixfile>_post.sh and common.sh after it
ScriptNames == {"pre", "post", "common"}

\* a script runs whenever its file exists
ShouldRunScript_IgnoreMarker(already, exists) == exists

\* lines 147, 168 and 434: a script runs when setup is not complete and the
\* file exists
ShouldRunScript(already, exists) == ~already /\ exists

\* lines 226-229: what _nix_build raises for a return code; with verbose the
\* output is not captured, proc.stdout is None and .decode() fails
NixBuildRaises(rc, verb) ==
    IF rc = 0 THEN "none"
    ELSE IF verb THEN "AttributeError" ELSE "SuppressedException"

\* lines 397-402 and 317-330: what the no-op remote command does to the
\* attempt: subprocess.run without check raises on a timeout and when the
\* script cannot be run at all, and not for an exit status
SshAttemptRaises(outcome) ==
    IF outcome = "timeout" THEN "TimeoutExpired"
    ELSE IF outcome = "oserror" THEN "OSError"
    ELSE "none"

\* lines 321 and 325: the exceptions after which the attempt is retried
Retried == {"TimeoutExpired", "CalledProcessError"}

\* every exception is handed on to the caller
Propagates_All(e) == e # "none"

\* lines 70-71: SuppressedException is swallowed by startvm
Propagates(e) == e \notin {"none", "SuppressedException"}

\* the first confirm key is left out
LoginKeys_NoFirstConfirm == user_password \o <<"ret">>

\* lines 350-355: the keys _log_in_user sends, in order
LoginKeys == <<"ret">> \o user_password \o <<"ret">>

\* lines 105-182: the steps of _setup_vm in the order of its statements
Milestones ==
    <<"ssh-keygen", "keypair", "nix-build", "ports", "popen", "prompt",
      "proxy", "run-scripts", "ssh-ready", "mount", "pre-login",
      "login-screen", "login", "post-login", "common", "marker">>

\* lines 108, 147, 168, 180, 415: the steps taken only under a condition
Conditional ==
    {"ssh-keygen", "nix-build", "pre-login", "post-login", "common", "marker"}

Rank(step) == CHOOSE n \in 1..Len(Milestones) : Milestones[n] = step

Did(step) == \E n \in 1..Len(did) : did[n] = step

\* where in the session's log a step stands
Pos(step) == CHOOSE n \in 1..Len(did) : did[n] = step

Raise(e) == pc' = "finally" /\ exc' = e

\* the peer delivers a framed response, or output that ends without a
\* prompt because the peer goes away
RdInit ==
    /\ rdStream \in Streams \cup Bodies
    /\ rdSent = <<>>
    /\ rdAnswer = <<>>
    /\ rdState = "reading"
    /\ rdChunks = 0

\* lines 497-503: recv returns the next k bytes of the stream
RdRecv ==
    /\ rdState = "reading"
    /\ rdStream # <<>>
    /\ \E k \in 1..Min(Len(rdStream), RecvSize) :
        LET chunk == SubSeq(rdStream, 1, k)
            r == WaitStep(rdAnswer, chunk)
        IN  /\ rdStream' = SubSeq(rdStream, k + 1, Len(rdStream))
            /\ rdSent' = rdSent \o chunk
            /\ rdAnswer' = r.answer
            /\ rdState' = IF r.done THEN "returned" ELSE "reading"
            /\ rdChunks' = rdChunks + 1
    /\ UNCHANGED sysVars

\* lines 498-499: recv returns b"" (the peer closed) and the loop is left
RdEof ==
    /\ rdState = "reading"
    /\ rdStream = <<>>
    /\ rdState' = "returned"
    /\ UNCHANGED <<rdStream, rdSent, rdAnswer, rdChunks>>
    /\ UNCHANGED sysVars

RdNext == RdRecv \/ RdEof


----------------------------------------------------------------------------
(* The session: initial state *)

\* a process that has just been started: no hypervisor, no proxy thread, no
\* connection
FreshProcess ==
    /\ vmProc' = "none"
    /\ monConn' = FALSE
    /\ spawned' = [k \in Spawns |-> 0]
    /\ monIn' = <<>>
    /\ qemuOut' = <<>>
    /\ monBuf' = <<>>
    /\ bootAnswer' = <<>>
    /\ dumpFile' = <<>>
    /\ keysInjected' = <<>>
    /\ ppc' = "none"
    /\ stopEvent' = FALSE
    /\ proxyBound' = FALSE
    /\ backlog' = <<>>
    /\ client_sock' = NoClient
    /\ request' = <<>>
    /\ answer' = <<>>
    /\ outstanding' = 0
    /\ timeouts' = 0
    /\ cpc' = [c \in Clients |-> "idle"]
    /\ creq' = [c \in Clients |-> <<>>]
    /\ cresp' = [c \in Clients |-> NoData]
    /\ pside' = [c \in Clients |-> "none"]
    /\ late' = {}

SysInit ==
    /\ fsMarker = FALSE /\ fsResult = FALSE /\ fsKey = 0
    /\ tmpDir = "none"
    /\ sessions = 0 /\ pc = "idle"
    /\ verbose = FALSE /\ scriptFiles = {} /\ already_setup = FALSE
    /\ code_dir = "default"
    /\ shutdown_vm = FALSE /\ exc = "none" /\ result = "none"
    /\ i = 0 /\ sshLast = "none" /\ ssh_public_key = 0
    /\ portsInUse = {} /\ vnc_arg = NoPort
    /\ returncode = NoStatus /\ counter = 0 /\ keys = 0
    /\ did = <<>>
    /\ vmProc = "none" /\ monConn = FALSE /\ monIn = <<>> /\ qemuOut = <<>>
    /\ spawned = [k \in Spawns |-> 0]
    /\ monBuf = <<>> /\ bootAnswer = <<>> /\ dumpFile = <<>>
    /\ keysInjected = <<>>
    /\ ppc = "none" /\ stopEvent = FALSE /\ proxyBound = FALSE
    /\ backlog = <<>> /\ client_sock = NoClient /\ request = <<>>
    /\ answer = <<>> /\ outstanding = 0 /\ timeouts = 0
    /\ cpc = [c \in Clients |-> "idle"]
    /\ creq = [c \in Clients |-> <<>>]
    /\ cresp = [c \in Clients |-> NoData]
    /\ pside = [c \in Clients |-> "none"]
    /\ late = {}

RdIdle ==
    /\ rdStream = <<>> /\ rdSent = <<>> /\ rdAnswer = <<>>
    /\ rdState = "returned" /\ rdChunks = 0

Init == RdIdle /\ SysInit

----------------------------------------------------------------------------
(* The foreground flow: startvm and _setup_vm *)

\* line 53: the local vm_dir after `pathlib.Path(vm_dir if vm_dir else
\* tempfile.mkdtemp())`: a path, whether or not the argument was given
VmDirLocal(arg) == "path"

\* lines 37-102: a startvm call in a new process. Line 51 comes ahead of the
\* try statement: what it raises ends the call there and then. Given a
\* working directory the call finds what earlier sessions left there; given
\* none it makes a fresh temporary directory (line 53). The marker is looked
\* up (line 100). The sessions against the caller's directory are the first
\* ones of a run
StartVm ==
    /\ pc \in {"idle", "done"}
    /\ sessions < MaxSessions
    /\ sessions' = sessions + 1
    /\ \E given \in BOOLEAN, arg \in CodeDirArgs :
        /\ code_dir' = CodeDir(arg)
        /\ IF CodeDirRaises(arg) # "none"
           THEN /\ exc' = CodeDirRaises(arg)
                /\ result' = "raised"
                /\ pc' = "done"
                /\ already_setup' = FALSE
                /\ UNCHANGED fsVars
           ELSE /\ exc' = "none"
                /\ result' = "running"
                /\ pc' = "keypair"
                /\ IF given
                   THEN /\ tmpDir = "none"
                        /\ UNCHANGED fsVars
                        /\ already_setup' = fsMarker
                   ELSE /\ tmpDir' = "exists"
                        /\ fsMarker' = FALSE /\ fsResult' = FALSE /\ fsKey' = 0
                        /\ already_setup' = FALSE
    /\ verbose' \in BOOLEAN
    /\ scriptFiles' = {}
    /\ shutdown_vm' = FALSE
    /\ i' = 0 /\ sshLast' = "none" /\ ssh_public_key' = 0
    /\ portsInUse' = {} /\ vnc_arg' = NoPort
    /\ returncode' = NoStatus
    /\ counter' = 0 /\ keys' = 0
    /\ did' = <<>>
    /\ FreshProcess
    /\ UNCHANGED rdVars

\* lines 105, 415-425: _ssh_setup_keypair generates a pair when the private
\* key file is missing, a new pair being another one than any before it, and
\* returns what id_rsa.pub holds
SetupKeypair ==
    /\ pc = "keypair"
    /\ IF ShouldKeygen(fsKey)
       THEN \E rc \in {0, 1} :
              IF KeygenRaises(rc) = "none"
              THEN /\ fsKey' = fsKey + 1
                   /\ ssh_public_key' = fsKey + 1
                   /\ did' = did \o <<"ssh-keygen", "keypair">>
                   /\ pc' = "build"
                   /\ exc' = exc
              ELSE /\ Raise(KeygenRaises(rc))
                   /\ UNCHANGED <<fsKey, ssh_public_key, did>>
       ELSE /\ ssh_public_key' = fsKey
            /\ did' = Append(did, "keypair")
            /\ pc' = "build"
            /\ UNCHANGED <<fsKey, exc>>
    /\ UNCHANGED <<fsMarker, fsResult, tmpDir, sessions, verbose, scriptFiles,
                   already_setup, shutdown_vm, result, i, sshLast, code_dir,
                   portsInUse, vnc_arg, returncode, counter, keys, vmVars,
                   proxyVars, clientVars, rdVars>>

\* lines 108-115, 191-229: _nix_build, for either return code of nix-build
NixBuild ==
    /\ pc = "build"
    /\ IF ShouldBuild(already_setup)
       THEN \E rc \in {0, 2} :
              /\ did' = Append(did, "nix-build")
              /\ fsResult' = (fsResult \/ rc = 0)
              /\ IF NixBuildRaises(rc, verbose) = "none"
                 THEN pc' = "launch" /\ exc' = exc
                 ELSE Raise(NixBuildRaises(rc, verbose))
       ELSE pc' = "launch" /\ UNCHANGED <<did, fsResult, exc>>
    /\ UNCHANGED <<fsMarker, fsKey, tmpDir, sessions, verbose, scriptFiles,
                   already_setup, shutdown_vm, result, i, sshLast, code_dir,
                   portsInUse, vnc_arg, ssh_public_key, returncode, counter,
                   keys, vmVars, proxyVars, clientVars, rdVars>>

\* lines 243-287: ports, monitor socket, Popen; the hypervisor then connects
\* to the monitor socket and starts to emit its banner and first prompt.
\* With every display port taken the assertion of line 264 fails before
\* Popen. Line 122 is the last place that reads verbose
StartQemu ==
    /\ pc = "launch"
    /\ \E busy \in BusySets :
        /\ portsInUse' = busy
        /\ vnc_arg' = VncArg(busy)
        /\ IF VncArg(busy) # NoPort
           THEN /\ did' = did \o <<"ports", "popen">>
                /\ vmProc' = "running"
                /\ spawned' = [spawned EXCEPT !.popen = @ + 1]
                /\ \E b \in RespBodies : qemuOut' = b \o Suffix
                /\ pc' = "accept"
                /\ exc' = exc
           ELSE /\ did' = Append(did, "ports")
                /\ Raise("AssertionError")
                /\ UNCHANGED <<vmProc, spawned, qemuOut>>
    /\ verbose' = FALSE
    /\ UNCHANGED <<fsVars, sessions, scriptFiles, already_setup,
                   shutdown_vm, result, i, sshLast, code_dir, ssh_public_key,
                   returncode, counter, keys, monConn, monIn, monBuf,
                   bootAnswer, dumpFile, keysInjected, proxyVars, clientVars,
                   rdVars>>

\* line 290: monitor_socket.accept()
AcceptMonitor ==
    /\ pc = "accept"
    /\ vmProc = "running"
    /\ monConn' = TRUE
    /\ spawned' = [spawned EXCEPT !.accept = @ + 1]
    /\ pc' = "boot_prompt"
    /\ UNCHANGED <<fsVars, sessions, verbose, scriptFiles, already_setup,
                   shutdown_vm, exc, result, i, sshLast, code_dir, portsInUse,
                   vnc_arg, ssh_public_key, returncode, counter, keys, did,
                   vmProc, monIn, qemuOut, monBuf, bootAnswer, dumpFile,
                   keysInjected, proxyVars, clientVars, rdVars>>

\* monitor_connection.recv(1024) can return: data is buffered, or the peer
\* is gone
MonitorReadable == monBuf # <<>> \/ vmProc = "killed"

\* lines 497-503 on the monitor connection: one recv and what follows it
MonitorRecv(ans) ==
    IF monBuf # <<>>
    THEN WaitStep(ans, SliceTo(monBuf, RecvSize))
    ELSE [answer |-> ans, done |-> TRUE]

\* what one recv leaves in the connection's buffer
MonitorRest == SubSeq(monBuf, Min(Len(monBuf), RecvSize) + 1, Len(monBuf))

\* line 294: the boot-time _monitor_wait_for_prompt of the foreground flow;
\* what it returns is dropped
BootPrompt ==
    /\ pc = "boot_prompt"
    /\ MonitorReadable
    /\ bootAnswer' = IF MonitorRecv(bootAnswer).done
                     THEN <<>> ELSE MonitorRecv(bootAnswer).answer
    /\ monBuf' = MonitorRest
    /\ pc' = IF MonitorRecv(bootAnswer).done THEN "start_proxy" ELSE pc
    /\ did' = IF MonitorRecv(bootAnswer).done THEN Append(did, "prompt") ELSE did
    /\ UNCHANGED <<fsVars, sessions, verbose, scriptFiles, already_setup,
                   shutdown_vm, exc, result, i, sshLast, code_dir, portsInUse,
                   vnc_arg, ssh_public_key, returncode, counter, keys, vmProc,
                   monConn, spawned, monIn, qemuOut, dumpFile, keysInjected,
                   proxyVars, clientVars, rdVars>>

\* the launcher is gone through again
AfterProxy_Relaunch == "launch"

\* lines 303 and 118-125: _start_qemu returns, once, to _setup_vm
AfterProxy == "run_scripts"

\* lines 296-301: the stop event is created and the proxy thread started
StartProxy ==
    /\ pc = "start_proxy"
    /\ stopEvent' = FALSE
    /\ ppc' = "bind"
    /\ did' = Append(did, "proxy")
    /\ spawned' = [spawned EXCEPT !.thread = @ + 1]
    /\ pc' = AfterProxy
    /\ UNCHANGED <<fsVars, sessions, verbose, scriptFiles, already_setup,
                   shutdown_vm, exc, result, i, sshLast, code_dir, portsInUse,
                   vnc_arg, ssh_public_key, returncode, counter, keys, vmProc,
                   monConn, monIn, qemuOut, monBuf, bootAnswer, dumpFile,
                   keysInjected, proxyBound, backlog, client_sock, request,
                   answer, outstanding, timeouts, clientVars, rdVars>>

\* lines 124-129, 358-406: vnc_port is logged, its last use, and
\* _ssh_create_run_scripts writes the two wrapper scripts
CreateRunScripts ==
    /\ pc = "run_scripts"
    /\ did' = Append(did, "run-scripts")
    /\ portsInUse' = {}
    /\ vnc_arg' = NoPort
    /\ pc' = "ssh"
    /\ UNCHANGED <<fsVars, sessions, verbose, scriptFiles, already_setup,
                   shutdown_vm, exc, result, i, sshLast, code_dir,
                   ssh_public_key, returncode, counter, keys, vmVars,
                   proxyVars, clientVars, rdVars>>

\* the mount is skipped
AfterSsh_SkipMount == "pre_login"

\* line 134 follows line 132: the mount comes after SSH readiness
AfterSsh == "mount"

\* lines 315-338: one iteration of _wait_for_ssh's loop; the remote `true`
\* exits 0, exits non-zero (connection reset), runs into the timeout, or the
\* wrapper script cannot be executed. The loop variable goes with the
\* function's return
WaitForSsh ==
    /\ pc = "ssh"
    /\ \E outcome \in {"ok", "nonzero", "timeout", "oserror"} :
        /\ sshLast' = outcome
        /\ IF SshAttemptRaises(outcome) = "none"
           THEN /\ did' = Append(did, "ssh-ready")
                /\ pc' = AfterSsh
                /\ i' = 0
                /\ exc' = exc
           ELSE IF SshAttemptRaises(outcome) \in Retried
           THEN /\ i' = i + 1
                /\ did' = did
                /\ IF i + 1 = attempts
                   THEN Raise("RuntimeError")
                   ELSE pc' = pc /\ exc' = exc
           ELSE /\ Raise(SshAttemptRaises(outcome))
                /\ UNCHANGED <<i, did>>
    /\ UNCHANGED <<fsVars, sessions, verbose, scriptFiles, already_setup,
                   shutdown_vm, result, code_dir, portsInUse, vnc_arg,
                   ssh_public_key, returncode, counter, keys, vmVars,
                   proxyVars, clientVars, rdVars>>

\* lines 134-145: mkdir and mount through the root run script; rc is the
\* first non-zero exit status of the two commands, if any
MountCode ==
    /\ pc = "mount"
    /\ \E rc \in {0, 1} :
        /\ returncode' = rc
        /\ IF RunScriptRaises(rc) = "none"
           THEN /\ did' = Append(did, "mount")
                /\ pc' = "pre_login"
                /\ exc' = exc
           ELSE Raise(RunScriptRaises(rc)) /\ did' = did
    /\ UNCHANGED <<fsVars, sessions, verbose, scriptFiles, already_setup,
                   shutdown_vm, result, i, sshLast, code_dir, portsInUse,
                   vnc_arg, ssh_public_key, counter, keys, vmVars, proxyVars,
                   clientVars, rdVars>>

\* the host's files beside the nixfile are anyone's to create and delete;
\* what counts is which of them exist when the session looks (line 434),
\* which it does in the two script steps
HostFiles ==
    /\ pc \in {"pre_login", "post_login"}
    /\ scriptFiles = {}
    /\ scriptFiles' \in (SUBSET ScriptNames) \ {{}}
    /\ UNCHANGED <<fsVars, sessions, pc, verbose, already_setup, shutdown_vm,
                   exc, result, i, sshLast, code_dir, portsInUse, vnc_arg,
                   ssh_public_key, returncode, counter, keys, did, vmVars,
                   proxyVars, clientVars, rdVars>>

\* lines 147-152, 428-437: the pre-login script, which exits with any
\* status. What the files were is of no use once the step is over
PreLogin ==
    /\ pc = "pre_login"
    /\ IF ShouldRunScript(already_setup, "pre" \in scriptFiles)
       THEN \E rc \in {0, 1} :
              /\ returncode' = rc
              /\ IF RunScriptRaises(rc) = "none"
                 THEN /\ did' = Append(did, "pre-login")
                      /\ pc' = "poll"
                      /\ exc' = exc
                 ELSE Raise(RunScriptRaises(rc)) /\ did' = did
       ELSE /\ returncode' = NoStatus
            /\ pc' = "poll"
            /\ UNCHANGED <<did, exc>>
    /\ scriptFiles' = {}
    /\ UNCHANGED <<fsVars, sessions, verbose, already_setup, shutdown_vm,
                   result, i, sshLast, code_dir, portsInUse, vnc_arg,
                   ssh_public_key, counter, keys, vmVars, proxyVars,
                   clientVars, rdVars>>

----------------------------------------------------------------------------
(* The foreground flow as a client of the proxy: _monitor_send_command *)

\* lines 516 and 522: the command line sent for a key or a screen capture
FgCommand ==
    IF pc = "poll_cmd" THEN <<"screendump">> ELSE <<"sendkey", LoginKeys[keys + 1]>>

\* lines 508-509: socket() and connect() to the proxy socket. The previous
\* connection has been closed by the proxy by then: until it is, the new one
\* would wait unseen in the backlog
FgConnect ==
    /\ pc \in {"poll_cmd", "key_cmd"}
    /\ cpc[FgClient] = "idle"
    /\ pside[FgClient] # "open"
    /\ IF proxyBound
       THEN /\ backlog' = Append(backlog, FgClient)
            /\ cpc' = [cpc EXCEPT ![FgClient] = "connected"]
            /\ pside' = [pside EXCEPT ![FgClient] = "open"]
            /\ late' = IF stopEvent THEN late \cup {FgClient} ELSE late
            /\ UNCHANGED <<pc, exc>>
       ELSE /\ Raise("ConnectionRefusedError")
            /\ UNCHANGED <<backlog, cpc, pside, late>>
    /\ UNCHANGED <<fsVars, sessions, verbose, scriptFiles, already_setup,
                   shutdown_vm, result, i, sshLast, code_dir, portsInUse,
                   vnc_arg, ssh_public_key, returncode, counter, keys, did,
                   vmVars, ppc, stopEvent, proxyBound, client_sock, request,
                   answer, outstanding, timeouts, creq, cresp, rdVars>>

\* the command is also written straight to the monitor connection
FgWrites_Direct(cmd) == [proxy |-> <<cmd>>, monitor |-> <<cmd>>]

\* lines 508-510: where _monitor_send_command writes the command line: to the
\* socket at socket_path, which is the proxy socket (lines 516, 520-522), and
\* never to the monitor connection
FgWrites(cmd) == [proxy |-> <<cmd>>, monitor |-> <<>>]

\* line 510: send((command + "\n").encode())
FgSend ==
    /\ pc \in {"poll_cmd", "key_cmd"}
    /\ cpc[FgClient] = "connected"
    /\ creq' = [creq EXCEPT ![FgClient] = FgWrites(FgCommand).proxy]
    /\ monIn' = monIn \o FgWrites(FgCommand).monitor
    /\ cpc' = [cpc EXCEPT ![FgClient] = "sent"]
    /\ UNCHANGED <<fsVars, fgVars, vmProc, monConn, spawned, qemuOut, monBuf,
                   bootAnswer, dumpFile, keysInjected, proxyVars, cresp,
                   pside, rdVars, late>>

\* recv returns at once, response or not
ClientReadable_NoWait(c) == TRUE

\* a client's recv(1024) can return: the proxy has written, or has closed
ClientReadable(c) == cresp[c] # NoData \/ pside[c] = "closed"

\* lines 511-512: recv(1024) returns (its value is dropped), then close()
FgRecv ==
    /\ pc \in {"poll_cmd", "key_cmd"}
    /\ cpc[FgClient] = "sent"
    /\ ClientReadable(FgClient)
    /\ cpc' = [cpc EXCEPT ![FgClient] = "idle"]
    /\ cresp' = [cresp EXCEPT ![FgClient] = NoData]
    /\ IF pc = "poll_cmd"
       THEN pc' = "poll_check" /\ keys' = keys
       ELSE pc' = "login" /\ keys' = keys + 1
    /\ UNCHANGED <<fsVars, sessions, verbose, scriptFiles, already_setup,
                   shutdown_vm, exc, result, i, sshLast, code_dir, portsInUse,
                   vnc_arg, ssh_public_key, returncode, counter, did, vmVars,
                   proxyVars, creq, pside, rdVars, late>>

----------------------------------------------------------------------------
(* The foreground flow: login wait, login, the rest of setup, the shell *)

\* lines 156-157, 520-522: a loop iteration opens a fresh temporary file and
\* asks for a screen capture into it. The exit status of the step before is
\* long dropped
PollScreen ==
    /\ pc = "poll"
    /\ dumpFile' = <<>>
    /\ returncode' = NoStatus
    /\ pc' = "poll_cmd"
    /\ UNCHANGED <<fsVars, sessions, verbose, scriptFiles, already_setup,
                   shutdown_vm, exc, result, i, sshLast, code_dir, portsInUse,
                   vnc_arg, ssh_public_key, counter, keys, did, vmProc,
                   monConn, spawned, monIn, qemuOut, monBuf, bootAnswer,
                   keysInjected, proxyVars, clientVars, rdVars>>

\* lines 523-525 and 157-163: the file is read back and looked at; break
\* (the loop variable is not used again), raise after the last iteration,
\* or sleep and go round
PollCheck ==
    /\ pc = "poll_check"
    /\ IF ~HasFourLines(dumpFile)
       THEN Raise("IndexError") /\ UNCHANGED <<counter, did>>
       ELSE IF IsOnLoginScreen(dumpFile)
       THEN /\ pc' = "login"
            /\ did' = Append(did, "login-screen")
            /\ counter' = 0
            /\ exc' = exc
       ELSE IF counter = login_wait_time
       THEN Raise("RuntimeError") /\ UNCHANGED <<counter, did>>
       ELSE /\ counter' = counter + 1
            /\ pc' = "poll"
            /\ UNCHANGED <<exc, did>>
    /\ UNCHANGED <<fsVars, sessions, verbose, scriptFiles, already_setup,
                   shutdown_vm, result, i, sshLast, code_dir, portsInUse,
                   vnc_arg, ssh_public_key, returncode, keys, vmVars,
                   proxyVars, clientVars, rdVars>>

\* lines 350-355: _log_in_user sends the next key, or is through
LogInUser ==
    /\ pc = "login"
    /\ IF keys < Len(LoginKeys)
       THEN pc' = "key_cmd" /\ did' = did
       ELSE pc' = "post_login" /\ did' = Append(did, "login")
    /\ UNCHANGED <<fsVars, sessions, verbose, scriptFiles, already_setup,
                   shutdown_vm, exc, result, i, sshLast, code_dir, portsInUse,
                   vnc_arg, ssh_public_key, returncode, counter, keys, vmVars,
                   proxyVars, clientVars, rdVars>>

\* lines 168-178: the post-login scripts, <nixfile>_post.sh and then
\* common.sh, each exiting with any status
PostLogin ==
    /\ pc = "post_login"
    /\ \E rcPost, rcCommon \in {0, 1} :
        LET runPost == ShouldRunScript(already_setup, "post" \in scriptFiles)
            errPost == IF runPost THEN RunScriptRaises(rcPost) ELSE "none"
            runCommon == /\ errPost = "none"
                         /\ ShouldRunScript(already_setup, "common" \in scriptFiles)
            errCommon == IF runCommon THEN RunScriptRaises(rcCommon) ELSE "none"
        IN  /\ did' = did
                  \o (IF runPost /\ errPost = "none"
                      THEN <<"post-login">> ELSE <<>>)
                  \o (IF runCommon /\ errCommon = "none"
                      THEN <<"common">> ELSE <<>>)
            /\ returncode' =
                  IF runPost /\ rcPost # 0 THEN rcPost
                  ELSE IF runCommon THEN rcCommon
                  ELSE IF runPost THEN rcPost ELSE NoStatus
            /\ IF errPost # "none" THEN Raise(errPost)
               ELSE IF errCommon # "none" THEN Raise(errCommon)
               ELSE pc' = "marker" /\ exc' = exc
    /\ scriptFiles' = {}
    /\ UNCHANGED <<fsVars, sessions, verbose, already_setup, shutdown_vm,
                   result, i, sshLast, code_dir, portsInUse, vnc_arg,
                   ssh_public_key, counter, keys, vmVars, proxyVars,
                   clientVars, rdVars>>

\* lines 180-182: the completion marker is written
WriteMarker ==
    /\ pc = "marker"
    /\ IF ~already_setup
       THEN fsMarker' = TRUE /\ did' = Append(did, "marker")
       ELSE UNCHANGED <<fsMarker, did>>
    /\ pc' = "return"
    /\ UNCHANGED <<fsResult, fsKey, tmpDir, sessions, verbose, scriptFiles,
                   already_setup, shutdown_vm, exc, result, i, sshLast,
                   code_dir, portsInUse, vnc_arg, ssh_public_key, returncode,
                   counter, keys, vmVars, proxyVars, clientVars, rdVars>>

\* lines 184-188 and 59: _setup_vm returns and startvm binds shutdown_vm;
\* the locals of _setup_vm are gone
FinishSetup ==
    /\ pc = "return"
    /\ shutdown_vm' = TRUE
    /\ already_setup' = FALSE
    /\ scriptFiles' = {}
    /\ sshLast' = "none"
    /\ ssh_public_key' = 0
    /\ UNCHANGED <<code_dir, portsInUse, vnc_arg>>
    /\ returncode' = NoStatus
    /\ keys' = 0
    /\ did' = <<>>
    /\ pc' = "shell"
    /\ UNCHANGED <<fsVars, sessions, verbose, exc, result, i, counter,
                   vmVars, proxyVars, clientVars, rdVars>>

\* the shell's exit status is checked
ShellRaises_Checked(status) == IF status = 0 THEN "none" ELSE "CalledProcessError"

\* lines 397-402 as called from lines 66-69: subprocess.run without check
\* raises nothing for an exit status
ShellRaises(status) == "none"

\* lines 65-69: the interactive shell runs until the user leaves it, with
\* any exit status. The tunnel goes with the session, and with it the
\* connections made so far
InteractiveShell ==
    /\ pc = "shell"
    /\ \E status \in {0, 1} : exc' = ShellRaises(status)
    /\ cpc' = [c \in Clients |->
                  IF cpc[c] \in {"connected", "sent"} THEN "closed" ELSE cpc[c]]
    /\ pc' = "finally"
    /\ UNCHANGED <<fsVars, sessions, verbose, scriptFiles, already_setup,
                   shutdown_vm, result, i, sshLast, code_dir, portsInUse,
                   vnc_arg, ssh_public_key, returncode, counter, keys, did,
                   vmVars, proxyVars, creq, cresp, pside, rdVars, late>>

\* lines 184-186: shutdown_vm(): vm_proc.kill(), then the stop event is set
ShutdownVm ==
    /\ vmProc' = "killed"
    /\ monIn' = <<>>
    /\ qemuOut' = <<>>
    /\ stopEvent' = TRUE
    /\ timeouts' = 0

\* lines 70-78: except SuppressedException, then the finally block: shutdown
\* when shutdown_vm is bound, rmtree when the local vm_dir is None; startvm
\* returns, or the exception goes on to its caller
Finally ==
    /\ pc = "finally"
    /\ IF shutdown_vm
       THEN ShutdownVm
       ELSE UNCHANGED <<vmProc, monIn, qemuOut, stopEvent, timeouts>>
    /\ tmpDir' = IF VmDirLocal(IF tmpDir = "none" THEN "path" ELSE "None") = "None"
                 THEN "removed" ELSE tmpDir
    /\ result' = IF Propagates(exc) THEN "raised" ELSE "returned"
    /\ pc' = "done"
    /\ UNCHANGED <<fsMarker, fsResult, fsKey, sessions, verbose, scriptFiles,
                   already_setup, shutdown_vm, exc, i, sshLast, code_dir,
                   portsInUse, vnc_arg, ssh_public_key, returncode, counter,
                   keys, did, monConn, spawned, monBuf, bootAnswer, dumpFile,
                   keysInjected, ppc, proxyBound, backlog, client_sock,
                   request, answer, outstanding, clientVars, rdVars>>

----------------------------------------------------------------------------
(* The hypervisor behind the monitor connection *)

\* the monitor executes the next command line: a screendump writes the file,
\* a sendkey presses the key; the response is a body and the prompt
QemuExec ==
    /\ vmProc = "running"
    /\ monConn
    /\ monIn # <<>>
    /\ qemuOut = <<>>
    /\ LET cmd == Head(monIn)
       IN  /\ IF cmd[1] = "screendump"
              THEN \E cap \in Captures : dumpFile' = cap
              ELSE dumpFile' = dumpFile
           /\ keysInjected' = IF cmd[1] = "sendkey"
                              THEN Append(keysInjected, cmd[2])
                              ELSE keysInjected
    /\ monIn' = Tail(monIn)
    /\ \E b \in RespBodies : qemuOut' = b \o Suffix
    /\ UNCHANGED <<fsVars, fgVars, vmProc, monConn, spawned, monBuf,
                   bootAnswer, proxyVars, clientVars, rdVars>>

\* the hypervisor writes the next piece of its output to the connection, in
\* pieces of any size
QemuEmit ==
    /\ vmProc = "running"
    /\ monConn
    /\ qemuOut # <<>>
    /\ \E k \in 1..Len(qemuOut) :
        /\ monBuf' = monBuf \o SubSeq(qemuOut, 1, k)
        /\ qemuOut' = SubSeq(qemuOut, k + 1, Len(qemuOut))
    /\ UNCHANGED <<fsVars, fgVars, vmProc, monConn, spawned, monIn,
                   bootAnswer, dumpFile, keysInjected, proxyVars, clientVars,
                   rdVars>>

----------------------------------------------------------------------------
(* The monitor proxy thread: _monitor_start_proxy *)

\* lines 469-474: the proxy socket is created, bound and listening
ProxyBind ==
    /\ ppc = "bind"
    /\ proxyBound' = TRUE
    /\ ppc' = "loop"
    /\ UNCHANGED <<fsVars, fgVars, vmVars, stopEvent, backlog, client_sock,
                   request, answer, outstanding, timeouts, clientVars,
                   rdVars>>

\* the handler retries accept without looking at the stop event
AfterCaught_Retry == "accept"

\* where the handler of line 484-485 goes on: `continue`
AfterCaught == "loop"

\* the response is not waited for
AfterForward_NoWait == "close"

\* line 481 follows line 480: the response is read next
AfterForward == "wait"

\* every OSError is caught
Caught_AnyOSError ==
    {"socket.timeout", "BrokenPipeError", "ConnectionResetError"}

\* line 484: except (socket.timeout, BrokenPipeError)
Caught == {"socket.timeout", "BrokenPipeError"}

\* lines 484-485: where the thread is after an exception in the loop body:
\* on with the loop, or out of the function with the exception
Handler(e) == IF e \in Caught THEN AfterCaught ELSE "raised"

\* what recv on the monitor connection can raise: with nothing buffered and
\* the hypervisor killed it returns b"" or, when the hypervisor died with
\* input it had not read, fails with ECONNRESET
MonitorRecvRaises ==
    IF monBuf = <<>> /\ vmProc = "killed"
    THEN {"none", "ConnectionResetError"} ELSE {"none"}

\* request and answer are dead once an iteration is over
IterationOver == request' = <<>> /\ answer' = <<>>

\* line 475: while not monitor_proxy_stop_event.is_set(); when the function
\* returns its sockets are dropped, and with them every connection still open
ProxyLoop ==
    /\ ppc = "loop"
    /\ IF stopEvent
       THEN /\ ppc' = "done"
            /\ proxyBound' = FALSE
            /\ backlog' = <<>>
            /\ pside' = [c \in Clients |->
                            IF pside[c] = "open" THEN "closed" ELSE pside[c]]
       ELSE /\ ppc' = "accept"
            /\ UNCHANGED <<proxyBound, backlog, pside>>
    /\ UNCHANGED <<fsVars, fgVars, vmVars, stopEvent, client_sock, request,
                   answer, outstanding, timeouts, cpc, creq, cresp, rdVars,
                   late>>

\* line 477: accept() returns the oldest waiting connection; rebinding
\* client_sock drops a socket the previous iteration left unclosed
ProxyAccept ==
    /\ ppc = "accept"
    /\ backlog # <<>>
    /\ client_sock' = Head(backlog)
    /\ backlog' = Tail(backlog)
    /\ pside' = [c \in Clients |->
                    IF c = client_sock /\ c # Head(backlog) /\ pside[c] = "open"
                    THEN "closed" ELSE pside[c]]
    /\ ppc' = "recv"
    /\ UNCHANGED <<fsVars, fgVars, vmVars, stopEvent, proxyBound, request,
                   answer, outstanding, timeouts, cpc, creq, cresp, rdVars,
                   late>>

\* lines 477, 484-485: nobody connected for 5 seconds; socket.timeout is
\* caught
ProxyAcceptTimeout ==
    /\ ppc = "accept"
    /\ backlog = <<>>
    /\ ppc' = Handler("socket.timeout")
    /\ timeouts' = IF stopEvent THEN timeouts + 1 ELSE timeouts
    /\ UNCHANGED <<fsVars, fgVars, vmVars, stopEvent, proxyBound, backlog,
                   client_sock, request, answer, outstanding, clientVars,
                   rdVars>>

\* lines 478-479: recv(1024) from the client: its bytes, or b"" when it has
\* closed without sending
ProxyRecv ==
    /\ ppc = "recv"
    /\ creq[client_sock] # <<>> \/ cpc[client_sock] = "closed"
    /\ request' = SliceTo(creq[client_sock], RecvSize)
    /\ creq' = [creq EXCEPT ![client_sock] =
                    SubSeq(@, Min(Len(@), RecvSize) + 1, Len(@))]
    /\ ppc' = IF request' # <<>> THEN "forward" ELSE "close"
    /\ UNCHANGED <<fsVars, fgVars, vmVars, stopEvent, proxyBound, backlog,
                   client_sock, answer, outstanding, timeouts, cpc, cresp,
                   pside, rdVars, late>>

\* line 480: monitor_connection.send(request); BrokenPipeError when the
\* hypervisor is gone
ProxyForward ==
    /\ ppc = "forward"
    /\ IF vmProc = "killed"
       THEN /\ ppc' = Handler("BrokenPipeError")
            /\ IterationOver
            /\ UNCHANGED <<monIn, outstanding>>
       ELSE /\ monIn' = monIn \o request
            /\ outstanding' = outstanding + 1
            /\ ppc' = AfterForward
            /\ UNCHANGED <<request, answer>>
    /\ UNCHANGED <<fsVars, fgVars, vmProc, monConn, spawned, qemuOut, monBuf,
                   bootAnswer, dumpFile, keysInjected, stopEvent, proxyBound,
                   backlog, client_sock, timeouts, clientVars, rdVars>>

\* line 481: _monitor_wait_for_prompt on the monitor connection, one recv at
\* a time. An exception of recv leaves the loop body; one that is not caught
\* ends the thread, and its sockets go with it
ProxyWait ==
    /\ ppc = "wait"
    /\ MonitorReadable
    /\ \E e \in MonitorRecvRaises :
        IF e = "none"
        THEN /\ answer' = MonitorRecv(answer).answer
             /\ monBuf' = MonitorRest
             /\ ppc' = IF MonitorRecv(answer).done THEN "reply" ELSE "wait"
             /\ UNCHANGED <<request, outstanding, proxyBound, backlog, pside>>
        ELSE /\ ppc' = Handler(e)
             /\ IterationOver
             /\ outstanding' = 0
             /\ monBuf' = monBuf
             /\ IF Handler(e) = "raised"
                THEN /\ proxyBound' = FALSE
                     /\ backlog' = <<>>
                     /\ pside' = [c \in Clients |->
                                     IF pside[c] = "open" THEN "closed" ELSE pside[c]]
                ELSE UNCHANGED <<proxyBound, backlog, pside>>
    /\ UNCHANGED <<fsVars, fgVars, vmProc, monConn, spawned, monIn, qemuOut,
                   bootAnswer, dumpFile, keysInjected, stopEvent,
                   client_sock, timeouts, cpc, creq, cresp, rdVars, late>>

\* line 482: client_sock.send(answer); BrokenPipeError when the client has
\* closed and there are bytes to write
ProxyReply ==
    /\ ppc = "reply"
    /\ outstanding' = outstanding - 1
    /\ IF cpc[client_sock] = "closed" /\ answer # <<>>
       THEN ppc' = Handler("BrokenPipeError") /\ cresp' = cresp
       ELSE /\ ppc' = "close"
            /\ cresp' = IF answer # <<>>
                        THEN [cresp EXCEPT ![client_sock] = answer]
                        ELSE cresp
    /\ IterationOver
    /\ UNCHANGED <<fsVars, fgVars, vmVars, stopEvent, proxyBound, backlog,
                   client_sock, timeouts, cpc, creq, pside, rdVars, late>>

\* line 483: client_sock.close()
ProxyClose ==
    /\ ppc = "close"
    /\ pside' = [pside EXCEPT ![client_sock] = "closed"]
    /\ ppc' = "loop"
    /\ UNCHANGED <<fsVars, fgVars, vmVars, stopEvent, proxyBound, backlog,
                   client_sock, request, answer, outstanding, timeouts, cpc,
                   creq, cresp, rdVars, late>>

----------------------------------------------------------------------------
(* Other clients of the proxy socket: TestRunnerCommands in the guest,     *)
(* which reach it through the reverse tunnel (-R 2134:<proxy socket>) of    *)
(* the interactive ssh session                                              *)

\* who connects: TestRunnerCommands in the guest, through the reverse tunnel
\* of the interactive session (lines 377-378), and any other local process,
\* at the socket's path in the working directory (lines 464-467). They act
\* in a session whose setup has completed, during the interactive shell and
\* after startvm has ended
ClientsMayAct == shutdown_vm /\ pc \in {"shell", "done"}

\* qemu.py line 30: socket_factory() connects to the proxy socket
ExtConnect(c) ==
    /\ ClientsMayAct
    /\ cpc[c] = "idle"
    /\ pside[c] = "none"
    /\ proxyBound
    /\ backlog' = Append(backlog, c)
    /\ cpc' = [cpc EXCEPT ![c] = "connected"]
    /\ pside' = [pside EXCEPT ![c] = "open"]
    /\ late' = IF stopEvent THEN late \cup {c} ELSE late
    /\ UNCHANGED <<fsVars, fgVars, vmVars, ppc, stopEvent, proxyBound,
                   client_sock, request, answer, outstanding, timeouts, creq,
                   cresp, rdVars>>

\* qemu.py lines 27, 31: send(("sendkey " + key + "\n").encode())
ExtSend(c) ==
    /\ ClientsMayAct
    /\ cpc[c] = "connected"
    /\ creq' = [creq EXCEPT ![c] = << <<"sendkey", "x">> >>]
    /\ cpc' = [cpc EXCEPT ![c] = "sent"]
    /\ UNCHANGED <<fsVars, fgVars, vmVars, proxyVars, cresp, pside, rdVars,
                   late>>

\* qemu.py lines 32-33: recv(1024) returns, then close()
ExtRecv(c) ==
    /\ ClientsMayAct
    /\ cpc[c] = "sent"
    /\ ClientReadable(c)
    /\ cpc' = [cpc EXCEPT ![c] = "closed"]
    /\ UNCHANGED <<fsVars, fgVars, vmVars, proxyVars, creq, cresp, pside,
                   rdVars, late>>

\* the client goes away early: its process ends or its tunnel is torn down
\* before the response has arrived
ExtAbort(c) ==
    /\ ClientsMayAct
    /\ cpc[c] \in {"connected", "sent"}
    /\ ~ClientReadable(c)
    /\ cpc' = [cpc EXCEPT ![c] = "closed"]
    /\ UNCHANGED <<fsVars, fgVars, vmVars, proxyVars, creq, cresp, pside,
                   rdVars, late>>

----------------------------------------------------------------------------
(* Specifications *)

Foreground ==
    \/ StartVm \/ SetupKeypair \/ NixBuild \/ StartQemu \/ AcceptMonitor
    \/ BootPrompt \/ StartProxy \/ CreateRunScripts \/ WaitForSsh
    \/ MountCode \/ PreLogin \/ PollScreen \/ FgConnect \/ FgSend \/ FgRecv
    \/ PollCheck \/ LogInUser \/ PostLogin \/ WriteMarker \/ FinishSetup
    \/ InteractiveShell \/ Finally

Hypervisor == QemuExec \/ QemuEmit

Proxy ==
    \/ ProxyBind \/ ProxyLoop \/ ProxyAccept \/ ProxyAcceptTimeout
    \/ ProxyRecv \/ ProxyForward \/ ProxyWait \/ ProxyReply \/ ProxyClose

External == \E c \in ExtClients : ExtConnect(c) \/ ExtSend(c) \/ ExtRecv(c) \/ ExtAbort(c)

Next == Foreground \/ Hypervisor \/ Proxy \/ External \/ HostFiles

Spec == Init /\ [][Next]_vars

\* the proxy thread and the hypervisor process are scheduled by the host:
\* a step of theirs that stays possible is taken. Nothing obliges a client
\* of the proxy socket to send or to close, nor the user to end the shell
SpecLive == Init /\ [][Next]_vars /\ WF_vars(Proxy) /\ WF_vars(Hypervisor)

\* the console read alone, the session untouched
InitRead == RdInit /\ SysInit

SpecRead == InitRead /\ [][RdNext]_vars

----------------------------------------------------------------------------
(* Claims *)

\* the hypervisor process was started in this session
Launched == vmProc # "none"

\* C1: for a stream that ends with the prompt and holds it nowhere earlier,
\* _monitor_wait_for_prompt returns the bytes received with the final 7
\* bytes (the prompt) removed
C1_ReturnsBytesBeforePrompt ==
    (/\ rdState = "returned"
     /\ rdStream = <<>>
     /\ EndsWith(rdSent, Suffix)
     /\ ~Occurs(Suffix, DropLast(rdSent, 1)))
    => rdAnswer = StripPrompt(rdSent)

\* C2: what the console read returns, and so what the proxy writes back to
\* its client, never ends with the prompt
C2_NoTrailingPrompt ==
    /\ ppc = "reply" => ~EndsWith(answer, Suffix)
    /\ \A c \in Clients : cresp[c] # NoData => ~EndsWith(cresp[c], Suffix)

\* C3: whenever startvm has ended after the hypervisor was launched, the
\* hypervisor has been killed and the stop event set
C3_ShutdownOnEveryExit ==
    (pc = "done" /\ Launched) => (vmProc = "killed" /\ stopEvent)

\* C4: in a session that found the completion marker, nix-build and the
\* pre- and post-login scripts are never run, and when setup is through, the
\* ports were allocated, the hypervisor launched, SSH waited for, the code
\* directory mounted and the login keys injected
C4_MarkerSkipsBuildAndScripts ==
    already_setup =>
        /\ ~Did("nix-build") /\ ~Did("pre-login") /\ ~Did("post-login")
        /\ ~Did("common")
        /\ pc = "return" =>
            /\ Did("ports") /\ Did("popen") /\ Launched
            /\ Did("ssh-ready") /\ Did("mount") /\ Did("login")
            /\ keysInjected = <<"ret">> \o user_password \o <<"ret">>

C4_Witness == already_setup /\ pc = "return"

\* C5: the proxy has at most one exchange open, and when it is about to
\* write a command to the console none is: the previous command's response
\* has been read and its write-back to the previous client has been done
C5_OneExchangeAtATime ==
    /\ outstanding \in {0, 1}
    /\ ppc = "forward" => outstanding = 0
    /\ outstanding = 1 => ppc \in {"wait", "reply"}

\* a second client's command is about to be forwarded while the first, which
\* was connected at the same time, still holds its response unread
C5_Witness ==
    /\ ppc = "forward"
    /\ \E c \in ExtClients :
        c # client_sock /\ cpc[c] = "sent" /\ cresp[c] # NoData

\* C6: when _wait_for_ssh is over and no attempt's remote command succeeded,
\* exactly `attempts` attempts were made, the fatal error was raised, and
\* the wait took at most attempts * retry_timeout seconds (lines 331-333: a
\* failed attempt lasts retry_timeout)
C6_ExactlyTwentyAttempts ==
    (pc # "ssh" /\ sshLast \in {"nonzero", "timeout"}) =>
        /\ i = attempts
        /\ exc = "RuntimeError"
        /\ i * retry_timeout <= attempts * retry_timeout

\* C7: a check that finds the sentinel at the start of the 4th line ends the
\* login wait at that poll, no poll follows it, and the login step presses
\* exactly the confirm key, the password's keys and the confirm key
C7_DetectThenInject ==
    /\ [][(/\ pc = "poll_check"
           /\ HasFourLines(dumpFile)
           /\ IsOnLoginScreen(dumpFile)) => pc' \in {"poll_check", "login"}]_vars
    /\ [](Did("login-screen") => pc \notin {"poll", "poll_cmd", "poll_check"})
    /\ [](Did("login-screen") => Len(keysInjected) <= Len(user_password) + 2)
    /\ [](Did("login") =>
            /\ keys = Len(user_password) + 2
            /\ keysInjected = <<"ret">> \o user_password \o <<"ret">>)

C7_Witness == Did("login") /\ Len(keysInjected) = Len(user_password) + 2

\* C8: when nix-build has exited non-zero, the session is aborted with the
\* build failure (SuppressedException) and no hypervisor, monitor connection
\* or proxy thread exists in it
C8_BuildFailureAborts ==
    (/\ pc \in {"finally", "done"}
     /\ did # <<>>
     /\ did[Len(did)] = "nix-build") =>
        /\ exc = "SuppressedException"
        /\ ~Launched /\ ~monConn /\ ppc = "none"

\* C9: once the stop event is set and the proxy waits in accept with nobody
\* connected, the accept timeout can be taken, at most one timeout is taken
\* (one poll interval of AcceptTimeout seconds), the loop condition is what
\* is looked at next, and the thread can then only end
C9_CancelWithinOnePoll ==
    /\ (stopEvent /\ ppc = "accept" /\ backlog = <<>>) =>
            (timeouts = 0 /\ ENABLED ProxyAcceptTimeout)
    /\ timeouts * AcceptTimeout <= AcceptTimeout
    /\ timeouts = 1 => ppc \in {"loop", "done"}
    /\ (stopEvent /\ ppc = "loop") => ENABLED ProxyLoop

C9_Witness == stopEvent /\ timeouts = 1 /\ ppc = "done"

\* C10: when setup completed (startvm holds shutdown_vm) and startvm has
\* ended, it returned without an error, the hypervisor is killed and the
\* stop event set
C10_NormalExit ==
    (pc = "done" /\ shutdown_vm) =>
        (result = "returned" /\ vmProc = "killed" /\ stopEvent)

C10_Witness == pc = "done" /\ shutdown_vm /\ result = "returned"

C12_ProxyOwnsConsole ==
    /\ [][(ppc # "none" /\ ppc' # "none" /\ Len(monIn') > Len(monIn)) =>
            (ppc = "forward" /\ monIn' = monIn \o request /\ UNCHANGED fgVars)]_vars
    /\ [][(ppc # "none" /\ ppc' # "none" /\ Len(monBuf') < Len(monBuf)) =>
            (ppc = "wait" /\ bootAnswer' = bootAnswer /\ UNCHANGED fgVars)]_vars
    /\ [](pc \in {"poll_cmd", "key_cmd"} => (ppc # "none" /\ bootAnswer = <<>>))

C12_Witness ==
    /\ pc = "key_cmd" /\ cpc[FgClient] = "sent" /\ ppc = "wait"
    /\ keysInjected # <<>>

\* C13: the steps a session has performed are in the order keypair, build,
\* launch, prompt, proxy, SSH ready, mount, pre-login, login screen, login,
\* post-login, marker, none of them twice; a step is performed only when all
\* unconditional steps before it have been; build and marker happen exactly
\* without the marker, the scripts only without it; and a setup that returns
\* has performed every unconditional step
C13_MilestonesInOrder ==
    /\ \A a, b \in 1..Len(did) : a < b => Rank(did[a]) < Rank(did[b])
    /\ \A n \in 1..Len(did) : \A j \in 1..(Rank(did[n]) - 1) :
           Milestones[j] \notin Conditional => Did(Milestones[j])
    /\ Did("ports") => (Did("nix-build") <=> ~already_setup)
    /\ (Did("pre-login") \/ Did("post-login") \/ Did("marker")) => ~already_setup
    /\ pc = "return" =>
           /\ \A j \in 1..Len(Milestones) :
                  Milestones[j] \notin Conditional => Did(Milestones[j])
           /\ Did("marker") <=> ~already_setup

C13_Witness ==
    /\ pc = "return" /\ ~already_setup
    /\ Did("pre-login") /\ Did("post-login") /\ Did("marker")

\* C14: when startvm has ended, a temporary directory it made for the
\* session has been removed (a directory given by the caller is never
\* removed: nothing but that rmtree deletes a directory)
C14_TempDirRemoved ==
    pc = "done" => tmpDir \in {"none", "removed"}

\* C15: at most one command is ever in the monitor's input; while one is
\* there, the previous response has been emitted and read to its end; the
\* proxy is about to write a command only when nothing of an earlier
\* exchange is left unexecuted, unemitted or unread; and nothing is written
\* between the accept of the connection and the end of the boot-time read
C15_OneOutstandingExchange ==
    /\ Len(monIn) <= 1
    /\ monIn # <<>> => (qemuOut = <<>> /\ monBuf = <<>> /\ ppc = "wait")
    /\ (ppc = "forward" /\ vmProc = "running") =>
           (monIn = <<>> /\ qemuOut = <<>> /\ monBuf = <<>>)
    /\ pc \in {"accept", "boot_prompt", "start_proxy"} =>
           (monIn = <<>> /\ ppc = "none")

C15_Witness ==
    /\ ppc = "forward" /\ vmProc = "running" /\ keysInjected # <<>>
    /\ client_sock \in ExtClients

\* C16: in the proxy loop an accept timeout, a broken pipe on the console
\* write and a broken pipe on the client write each take the thread back to
\* the loop condition, from where it goes on to accept while the stop event
\* is not set; a connection reset on the console read takes it out of the
\* loop for good: the thread has ended with the exception
C16_SwallowedAndPropagated ==
    /\ [][(ppc = "accept" /\ backlog = <<>> /\ ppc' \notin {ppc, "none"})
            => ppc' = "loop"]_vars
    /\ [][(ppc = "forward" /\ vmProc = "killed" /\ ppc' \notin {ppc, "none"})
            => ppc' = "loop"]_vars
    /\ [][(/\ ppc = "reply" /\ cpc[client_sock] = "closed" /\ answer # <<>>
           /\ ppc' \notin {ppc, "none"}) => ppc' = "loop"]_vars
    /\ [][(ppc = "loop" /\ ~stopEvent /\ ppc' \notin {ppc, "none"})
            => ppc' = "accept"]_vars
    /\ [][(ppc = "wait" /\ ppc' \notin {"wait", "reply", "none"})
            => (monBuf = <<>> /\ vmProc = "killed" /\ ppc' = "raised")]_vars
    /\ [][ppc = "raised" => ppc' \in {"raised", "none"}]_vars
    /\ [](ppc = "raised" => (~proxyBound /\ backlog = <<>>))

C16_Witness == ppc = "raised" /\ timeouts = 0 /\ stopEvent

\* C17: once the stop event is set, the exchange in progress runs to its
\* end (the thread is not ended by an error in the middle of it), and the
\* proxy never takes up a client that connected after the event was set: it
\* neither reads such a client's request nor passes it to the console write
C17_CancelServesNoNewClient ==
    /\ stopEvent => ppc # "raised"
    /\ ppc \in {"recv", "forward", "wait", "reply", "close"} =>
           client_sock \notin late

\* C18: readiness is reported only after an attempt whose remote command
\* succeeded; an attempt that timed out or exited non-zero has been counted
\* as failed, and polling goes on or has ended with the fatal error; any
\* other failure of an attempt has ended setup with that failure at once
C18_RetryOnTimeoutAndReset ==
    /\ Did("ssh-ready") => sshLast = "ok"
    /\ sshLast \in {"timeout", "nonzero"} =>
           /\ i >= 1
           /\ pc = "ssh" \/ (pc \in {"finally", "done"} /\ exc = "RuntimeError")
    /\ sshLast = "oserror" => (pc \in {"finally", "done"} /\ exc = "OSError")

\* C19: the login wait makes at most login_wait_time + 1 = 25 screen checks,
\* and a setup that ended in the login wait after a screen check (after the
\* mount or the pre-login script, the screen never detected, the proxy
\* reached) ended with the timeout error after the 25th check, whatever the
\* captures contained
C19_LoginWaitTimesOut ==
    /\ counter + 1 <= login_wait_time + 1
    /\ (/\ pc \in {"finally", "done"} /\ exc # "ConnectionRefusedError"
        /\ did # <<>> /\ did[Len(did)] \in {"mount", "pre-login"}) =>
           (exc = "RuntimeError" /\ counter = login_wait_time)

\* C20: a session whose build step failed, verbose or not, carries
\* SuppressedException and nothing else out of _nix_build, and startvm then
\* ends by returning, without an error raised to its caller
C20_BuildFailureIsSuppressed ==
    (/\ pc \in {"finally", "done"} /\ did # <<>> /\ did[Len(did)] = "nix-build") =>
        /\ exc = "SuppressedException"
        /\ pc = "done" => result = "returned"

\* C21: at the build step of a session whose working directory already holds
\* the build artifact (the result link) of an earlier run, the external
\* build tool is not invoked
C21_ArtifactSkipsBuild ==
    (pc = "build" /\ fsResult) => ~ShouldBuild(already_setup)

\* C22: the pre-login step runs the script exactly when the marker was
\* absent at session start and the file exists, and the post-login step does
\* so for each of its two scripts; the pre-login script runs after the mount,
\* before any screen capture is asked for and before the login screen is
\* seen; a post-login script runs only after the login keys were injected
C22_ScriptsRunIffUnsetAndPresent ==
    /\ [][(pc = "pre_login" /\ pc' # "pre_login") =>
            ((\E n \in 1..Len(did') : did'[n] = "pre-login")
                <=> (~already_setup /\ "pre" \in scriptFiles))]_vars
    /\ [][(pc = "post_login" /\ pc' # "post_login") =>
            /\ (\E n \in 1..Len(did') : did'[n] = "post-login")
                 <=> (~already_setup /\ "post" \in scriptFiles)
            /\ (\E n \in 1..Len(did') : did'[n] = "common")
                 <=> (~already_setup /\ "common" \in scriptFiles)]_vars
    /\ [](pc = "pre_login" =>
            (Did("mount") /\ dumpFile = <<>> /\ keysInjected = <<>>))
    /\ [](Did("pre-login") =>
            /\ Did("mount") /\ Pos("mount") < Pos("pre-login")
            /\ Did("login-screen") => Pos("pre-login") < Pos("login-screen"))
    /\ []((Did("post-login") \/ Did("common")) =>
            /\ Did("login") /\ keysInjected = LoginKeys
            /\ \A n \in 1..Len(did) :
                 did[n] \in {"post-login", "common"} => Pos("login") < n)

C22_Witness ==
    /\ pc = "marker" /\ ~already_setup
    /\ Did("pre-login") /\ Did("common") /\ ~Did("post-login")

\* C23: after a setup step whose remote command (the mkdir/mount, a
\* pre-login or a post-login script) exited non-zero, setup is being
\* aborted with an error that reaches the caller; it has not gone on to the
\* next step
C23_FailedStepAborts ==
    (returncode \notin {NoStatus, 0}) =>
        (pc \in {"finally", "done"} /\ Propagates(exc))

\* C24: the key step invokes the generator only when it finds no stored
\* pair, and leaves a stored pair as it is; so a working directory sees at
\* most one pair generated, the first, and every session that got through
\* the key step holds that pair's public key
C24_KeyGeneratedOnce ==
    /\ [][(pc = "keypair" /\ fsKey # 0) =>
            (fsKey' = fsKey /\ exc' # "CalledProcessError"
             /\ \A n \in 1..Len(did') : did'[n] # "ssh-keygen")]_vars
    /\ [](fsKey <= 1)
    /\ [](Did("keypair") => (fsKey = 1 /\ ssh_public_key = 1))

C24_Witness ==
    /\ sessions = 2 /\ tmpDir = "none" /\ Did("keypair") /\ ~Did("ssh-keygen")
    /\ ssh_public_key = 1

\* C25: when the proxy is back at the top of its loop, or has ended, the
\* exchange with the client it accepted last is over, and once that client
\* is through with the connection (so that it is not a later connection of
\* the same client) the proxy has closed its end of it
C25_OneExchangeThenClosed ==
    (/\ ppc \in {"loop", "accept", "done", "raised"}
     /\ client_sock # NoClient
     /\ cpc[client_sock] = "closed") =>
        pside[client_sock] = "closed"

\* C26: the display offset the launcher settles on is that of the lowest
\* port of 5900..5999 not accepting connections when probed (the port is
\* the offset plus 5900, every lower port of the range is in use), the
\* hypervisor is only ever started with such an offset, and when all 100
\* ports are in use the launch has failed with no hypervisor process started
C26_LowestFreeDisplayPort ==
    /\ vnc_arg # NoPort =>
           /\ vnc_arg \in 0..(VncRange - 1)
           /\ (VncBase + vnc_arg) \notin portsInUse
           /\ \A p \in VncBase..(VncBase + vnc_arg - 1) : p \in portsInUse
    /\ pc \in {"accept", "boot_prompt", "start_proxy", "run_scripts"} =>
           (vnc_arg # NoPort /\ vmProc # "none")
    /\ (\A p \in VncBase..(VncBase + VncRange - 1) : p \in portsInUse) =>
           /\ vnc_arg = NoPort /\ vmProc = "none" /\ ~Did("popen")
           /\ pc \in {"finally", "done"} /\ exc = "AssertionError"

C26_Witness ==
    /\ pc = "accept" /\ vmProc = "running"
    /\ vnc_arg = 1 /\ portsInUse = {VncBase}

\* C27: for a stream that ends with the prompt and holds it nowhere earlier,
\* however the stream is cut into reads, the console read is over exactly
\* when the whole stream, the last prompt byte included, has been received,
\* and what it returns is one and the same value for every cutting: the one
\* the code computes from the whole stream
C27_ChunkingIndependent ==
    LET full == rdSent \o rdStream
    IN  (EndsWith(full, Suffix) /\ ~Occurs(Suffix, DropLast(full, 1))) =>
            /\ rdState = "returned" <=> rdStream = <<>>
            /\ rdState = "returned" => rdAnswer = Truncate(full)
            /\ rdState = "reading" => rdAnswer = rdSent

C27_Witness ==
    /\ rdState = "returned"
    /\ EndsWith(rdSent, Suffix) /\ Len(rdSent) > Len(Suffix)
    /\ rdChunks = Len(rdSent)

\* the proxy threads of the session that have not ended
LiveProxies == IF ppc \in {"none", "done", "raised"} THEN 0 ELSE spawned.thread

\* C28 as stated: a session that has ended accepted exactly one console
\* connection
C28_ExactlyOneConsole == pc = "done" => spawned.accept = 1

\* C28: a session launches at most one hypervisor process, accepts at most
\* one console connection (exactly one from the accept on, in a session
\* whose hypervisor was launched) and starts at most one proxy thread, each
\* only after the one before; the number of live proxy threads is 0 or 1,
\* and it is 1 only with the console connection accepted and open
C28_AtMostOneOfEach ==
    /\ \A k \in Spawns : spawned[k] \in {0, 1}
    /\ spawned.thread <= spawned.accept /\ spawned.accept <= spawned.popen
    /\ (Launched /\ pc # "accept") => spawned.accept = 1
    /\ Launched <=> spawned.popen = 1
    /\ LiveProxies \in {0, 1}
    /\ LiveProxies = 1 => (monConn /\ spawned.accept = 1)

C28_Witness ==
    /\ pc = "shell" /\ ppc = "wait" /\ client_sock \in ExtClients
    /\ LiveProxies = 1 /\ \A k \in Spawns : spawned[k] = 1

\* C29: a startvm call that was given a code directory goes through setup
\* like any other: when it has ended, setup steps were taken (or setup was
\* completed), and a hypervisor it launched exports that directory
C29_SuppliedCodeDirIsExported ==
    (pc = "done" /\ code_dir = "str") => (did # <<>> \/ shutdown_vm)

\* C30: the marker has been written only in a setup whose step just before
\* the write, like every step before it, succeeded: no remote command of
\* that step had exited non-zero
C30_MarkerOnlyAfterSuccess ==
    Did("marker") => returncode \in {NoStatus, 0}

\* C31: whenever the foreground flow is at a command to the proxy (the
\* first one is the first screendump of the login-screen wait), the proxy
\* thread has bound its socket and is listening
C31_BoundBeforeConnect ==
    pc \in {"poll_cmd", "key_cmd"} => proxyBound

\* C32: once the stop event is set (the hypervisor killed just before), the
\* proxy thread ends, whatever it was doing
C32_ProxyTerminates ==
    stopEvent ~> (ppc \in {"done", "raised"} \/ ~stopEvent)

\* C33: from the login on, the keys the hypervisor has been given are the
\* first keys of confirm, password, confirm, in that order; at most one key
\* command is not yet answered, the one the foreground flow is waiting on;
\* when the flow is about to send a key, the previous command has been
\* answered and none is on its way; after the login all keys were given
C33_KeysInOrder ==
    pc \in {"login", "key_cmd", "post_login", "marker", "return"} =>
        /\ Len(keysInjected) <= Len(LoginKeys)
        /\ keysInjected = SubSeq(LoginKeys, 1, Len(keysInjected))
        /\ Len(keysInjected) \in {keys, keys + 1}
        /\ Len(keysInjected) = keys + 1 =>
               (pc = "key_cmd" /\ cpc[FgClient] = "sent")
        /\ (pc = "key_cmd" /\ cpc[FgClient] \in {"idle", "connected"}) =>
               (monIn = <<>> /\ request = <<>> /\ outstanding = 0)
        /\ pc \in {"post_login", "marker", "return"} => keysInjected = LoginKeys

C33_Witness ==
    /\ pc = "key_cmd" /\ cpc[FgClient] = "sent"
    /\ keys = Len(LoginKeys) - 1 /\ keysInjected = LoginKeys

====
